---------------------------- MODULE Spec2Model ----------------------------
(***************************************************************************)
(* A model of src/cnn_scraper.py: the CNNNewsScraper pipeline              *)
(*   fetch_main_page -> parse_main_page -> ThreadPoolExecutor fan-out of   *)
(*   fetch_article -> as_completed collection -> main()'s exit status.     *)
(*                                                                         *)
(* Text is modelled as a sequence of one-character strings, so that the    *)
(* string operations of the source (in, startswith, strip, replace, join,  *)
(* the regular expression search) are computed character by character.     *)
(* A parsed document is modelled by what BeautifulSoup hands to the code:  *)
(* the anchors of the landing page in document order, and for an article   *)
(* page its first h1, its timestamp div, its paragraph__content divs and   *)
(* its p elements.  An element's text is the sequence of its text nodes.   *)
(* What the network answers (session.get) and what strptime makes of a     *)
(* timestamp text are inputs chosen by the environment.                    *)
(***************************************************************************)
EXTENDS Integers, Sequences, FiniteSets, TLC

(***************************************************************************)
(* Bounds of the model.                                                    *)
(***************************************************************************)
MaxThreads == 2      \* threads (-t) ranges over 1..MaxThreads
MaxLinks == 3        \* anchors on a landing page of the crawl specification
MaxAnchors == 2      \* anchors on a landing page of the parsing specification
MaxParagraphs == 2   \* paragraph elements matched on an article page
MaxPieces == 2       \* text nodes inside one paragraph element

(***************************************************************************)
(* Text literals of the source.                                            *)
(***************************************************************************)
base_url == <<"h", "t", "t", "p", "s", ":", "/", "/", "w", "w", "w", ".", "c", "n", "n", ".", "c", "o", "m">>
VIDEO == <<"V", "i", "d", "e", "o">>
GALLERY == <<"G", "a", "l", "l", "e", "r", "y">>
FOLLOW == <<"F", "o", "l", "l", "o", "w", ":">>
NO_CONTENT_FOUND == <<"N", "o", " ", "C", "o", "n", "t", "e", "n", "t", " ", "F", "o", "u", "n", "d">>
NO_DATE_FOUND == <<"N", "o", " ", "D", "a", "t", "e", " ", "F", "o", "u", "n", "d">>
NEWLINE == <<"\n">>

(***************************************************************************)
(* String operations, as Python computes them.                             *)
(***************************************************************************)
\* A character is a one-character string; a character outside printable
\* ASCII that TLA+ cannot write is named by its code point ("U+00A0").
\* The decimal digits: what \d matches in a str pattern compiled without
\* re.ASCII (line 110), every character of Unicode category Nd
Digits ==
    {"0", "1", "2", "3", "4", "5", "6", "7", "8", "9", "U+0660", "U+0661",
     "U+0662", "U+0663", "U+0664", "U+0665", "U+0666", "U+0667", "U+0668",
     "U+0669", "U+06F0", "U+06F1", "U+06F2", "U+06F3", "U+06F4", "U+06F5",
     "U+06F6", "U+06F7", "U+06F8", "U+06F9", "U+07C0", "U+07C1", "U+07C2",
     "U+07C3", "U+07C4", "U+07C5", "U+07C6", "U+07C7", "U+07C8", "U+07C9",
     "U+0966", "U+0967", "U+0968", "U+0969", "U+096A", "U+096B", "U+096C",
     "U+096D", "U+096E", "U+096F", "U+09E6", "U+09E7", "U+09E8", "U+09E9",
     "U+09EA", "U+09EB", "U+09EC", "U+09ED", "U+09EE", "U+09EF", "U+0A66",
     "U+0A67", "U+0A68", "U+0A69", "U+0A6A", "U+0A6B", "U+0A6C", "U+0A6D",
     "U+0A6E", "U+0A6F", "U+0AE6", "U+0AE7", "U+0AE8", "U+0AE9", "U+0AEA",
     "U+0AEB", "U+0AEC", "U+0AED", "U+0AEE", "U+0AEF", "U+0B66", "U+0B67",
     "U+0B68", "U+0B69", "U+0B6A", "U+0B6B", "U+0B6C", "U+0B6D", "U+0B6E",
     "U+0B6F", "U+0BE6", "U+0BE7", "U+0BE8", "U+0BE9", "U+0BEA", "U+0BEB",
     "U+0BEC", "U+0BED", "U+0BEE", "U+0BEF", "U+0C66", "U+0C67", "U+0C68",
     "U+0C69", "U+0C6A", "U+0C6B", "U+0C6C", "U+0C6D", "U+0C6E", "U+0C6F",
     "U+0CE6", "U+0CE7", "U+0CE8", "U+0CE9", "U+0CEA", "U+0CEB", "U+0CEC",
     "U+0CED", "U+0CEE", "U+0CEF", "U+0D66", "U+0D67", "U+0D68", "U+0D69",
     "U+0D6A", "U+0D6B", "U+0D6C", "U+0D6D", "U+0D6E", "U+0D6F", "U+0DE6",
     "U+0DE7", "U+0DE8", "U+0DE9", "U+0DEA", "U+0DEB", "U+0DEC", "U+0DED",
     "U+0DEE", "U+0DEF", "U+0E50", "U+0E51", "U+0E52", "U+0E53", "U+0E54",
     "U+0E55", "U+0E56", "U+0E57", "U+0E58", "U+0E59", "U+0ED0", "U+0ED1",
     "U+0ED2", "U+0ED3", "U+0ED4", "U+0ED5", "U+0ED6", "U+0ED7", "U+0ED8",
     "U+0ED9", "U+0F20", "U+0F21", "U+0F22", "U+0F23", "U+0F24", "U+0F25",
     "U+0F26", "U+0F27", "U+0F28", "U+0F29", "U+1040", "U+1041", "U+1042",
     "U+1043", "U+1044", "U+1045", "U+1046", "U+1047", "U+1048", "U+1049",
     "U+1090", "U+1091", "U+1092", "U+1093", "U+1094", "U+1095", "U+1096",
     "U+1097", "U+1098", "U+1099", "U+17E0", "U+17E1", "U+17E2", "U+17E3",
     "U+17E4", "U+17E5", "U+17E6", "U+17E7", "U+17E8", "U+17E9", "U+1810",
     "U+1811", "U+1812", "U+1813", "U+1814", "U+1815", "U+1816", "U+1817",
     "U+1818", "U+1819", "U+1946", "U+1947", "U+1948", "U+1949", "U+194A",
     "U+194B", "U+194C", "U+194D", "U+194E", "U+194F", "U+19D0", "U+19D1",
     "U+19D2", "U+19D3", "U+19D4", "U+19D5", "U+19D6", "U+19D7", "U+19D8",
     "U+19D9", "U+1A80", "U+1A81", "U+1A82", "U+1A83", "U+1A84", "U+1A85",
     "U+1A86", "U+1A87", "U+1A88", "U+1A89", "U+1A90", "U+1A91", "U+1A92",
     "U+1A93", "U+1A94", "U+1A95", "U+1A96", "U+1A97", "U+1A98", "U+1A99",
     "U+1B50", "U+1B51", "U+1B52", "U+1B53", "U+1B54", "U+1B55", "U+1B56",
     "U+1B57", "U+1B58", "U+1B59", "U+1BB0", "U+1BB1", "U+1BB2", "U+1BB3",
     "U+1BB4", "U+1BB5", "U+1BB6", "U+1BB7", "U+1BB8", "U+1BB9", "U+1C40",
     "U+1C41", "U+1C42", "U+1C43", "U+1C44", "U+1C45", "U+1C46", "U+1C47",
     "U+1C48", "U+1C49", "U+1C50", "U+1C51", "U+1C52", "U+1C53", "U+1C54",
     "U+1C55", "U+1C56", "U+1C57", "U+1C58", "U+1C59", "U+A620", "U+A621",
     "U+A622", "U+A623", "U+A624", "U+A625", "U+A626", "U+A627", "U+A628",
     "U+A629", "U+A8D0", "U+A8D1", "U+A8D2", "U+A8D3", "U+A8D4", "U+A8D5",
     "U+A8D6", "U+A8D7", "U+A8D8", "U+A8D9", "U+A900", "U+A901", "U+A902",
     "U+A903", "U+A904", "U+A905", "U+A906", "U+A907", "U+A908", "U+A909",
     "U+A9D0", "U+A9D1", "U+A9D2", "U+A9D3", "U+A9D4", "U+A9D5", "U+A9D6",
     "U+A9D7", "U+A9D8", "U+A9D9", "U+A9F0", "U+A9F1", "U+A9F2", "U+A9F3",
     "U+A9F4", "U+A9F5", "U+A9F6", "U+A9F7", "U+A9F8", "U+A9F9", "U+AA50",
     "U+AA51", "U+AA52", "U+AA53", "U+AA54", "U+AA55", "U+AA56", "U+AA57",
     "U+AA58", "U+AA59", "U+ABF0", "U+ABF1", "U+ABF2", "U+ABF3", "U+ABF4",
     "U+ABF5", "U+ABF6", "U+ABF7", "U+ABF8", "U+ABF9", "U+FF10", "U+FF11",
     "U+FF12", "U+FF13", "U+FF14", "U+FF15", "U+FF16", "U+FF17", "U+FF18",
     "U+FF19", "U+104A0", "U+104A1", "U+104A2", "U+104A3", "U+104A4",
     "U+104A5", "U+104A6", "U+104A7", "U+104A8", "U+104A9", "U+10D30",
     "U+10D31", "U+10D32", "U+10D33", "U+10D34", "U+10D35", "U+10D36",
     "U+10D37", "U+10D38", "U+10D39", "U+11066", "U+11067", "U+11068",
     "U+11069", "U+1106A", "U+1106B", "U+1106C", "U+1106D", "U+1106E",
     "U+1106F", "U+110F0", "U+110F1", "U+110F2", "U+110F3", "U+110F4",
     "U+110F5", "U+110F6", "U+110F7", "U+110F8", "U+110F9", "U+11136",
     "U+11137", "U+11138", "U+11139", "U+1113A", "U+1113B", "U+1113C",
     "U+1113D", "U+1113E", "U+1113F", "U+111D0", "U+111D1", "U+111D2",
     "U+111D3", "U+111D4", "U+111D5", "U+111D6", "U+111D7", "U+111D8",
     "U+111D9", "U+112F0", "U+112F1", "U+112F2", "U+112F3", "U+112F4",
     "U+112F5", "U+112F6", "U+112F7", "U+112F8", "U+112F9", "U+11450",
     "U+11451", "U+11452", "U+11453", "U+11454", "U+11455", "U+11456",
     "U+11457", "U+11458", "U+11459", "U+114D0", "U+114D1", "U+114D2",
     "U+114D3", "U+114D4", "U+114D5", "U+114D6", "U+114D7", "U+114D8",
     "U+114D9", "U+11650", "U+11651", "U+11652", "U+11653", "U+11654",
     "U+11655", "U+11656", "U+11657", "U+11658", "U+11659", "U+116C0",
     "U+116C1", "U+116C2", "U+116C3", "U+116C4", "U+116C5", "U+116C6",
     "U+116C7", "U+116C8", "U+116C9", "U+11730", "U+11731", "U+11732",
     "U+11733", "U+11734", "U+11735", "U+11736", "U+11737", "U+11738",
     "U+11739", "U+118E0", "U+118E1", "U+118E2", "U+118E3", "U+118E4",
     "U+118E5", "U+118E6", "U+118E7", "U+118E8", "U+118E9", "U+11950",
     "U+11951", "U+11952", "U+11953", "U+11954", "U+11955", "U+11956",
     "U+11957", "U+11958", "U+11959", "U+11C50", "U+11C51", "U+11C52",
     "U+11C53", "U+11C54", "U+11C55", "U+11C56", "U+11C57", "U+11C58",
     "U+11C59", "U+11D50", "U+11D51", "U+11D52", "U+11D53", "U+11D54",
     "U+11D55", "U+11D56", "U+11D57", "U+11D58", "U+11D59", "U+11DA0",
     "U+11DA1", "U+11DA2", "U+11DA3", "U+11DA4", "U+11DA5", "U+11DA6",
     "U+11DA7", "U+11DA8", "U+11DA9", "U+16A60", "U+16A61", "U+16A62",
     "U+16A63", "U+16A64", "U+16A65", "U+16A66", "U+16A67", "U+16A68",
     "U+16A69", "U+16AC0", "U+16AC1", "U+16AC2", "U+16AC3", "U+16AC4",
     "U+16AC5", "U+16AC6", "U+16AC7", "U+16AC8", "U+16AC9", "U+16B50",
     "U+16B51", "U+16B52", "U+16B53", "U+16B54", "U+16B55", "U+16B56",
     "U+16B57", "U+16B58", "U+16B59", "U+1D7CE", "U+1D7CF", "U+1D7D0",
     "U+1D7D1", "U+1D7D2", "U+1D7D3", "U+1D7D4", "U+1D7D5", "U+1D7D6",
     "U+1D7D7", "U+1D7D8", "U+1D7D9", "U+1D7DA", "U+1D7DB", "U+1D7DC",
     "U+1D7DD", "U+1D7DE", "U+1D7DF", "U+1D7E0", "U+1D7E1", "U+1D7E2",
     "U+1D7E3", "U+1D7E4", "U+1D7E5", "U+1D7E6", "U+1D7E7", "U+1D7E8",
     "U+1D7E9", "U+1D7EA", "U+1D7EB", "U+1D7EC", "U+1D7ED", "U+1D7EE",
     "U+1D7EF", "U+1D7F0", "U+1D7F1", "U+1D7F2", "U+1D7F3", "U+1D7F4",
     "U+1D7F5", "U+1D7F6", "U+1D7F7", "U+1D7F8", "U+1D7F9", "U+1D7FA",
     "U+1D7FB", "U+1D7FC", "U+1D7FD", "U+1D7FE", "U+1D7FF", "U+1E140",
     "U+1E141", "U+1E142", "U+1E143", "U+1E144", "U+1E145", "U+1E146",
     "U+1E147", "U+1E148", "U+1E149", "U+1E2F0", "U+1E2F1", "U+1E2F2",
     "U+1E2F3", "U+1E2F4", "U+1E2F5", "U+1E2F6", "U+1E2F7", "U+1E2F8",
     "U+1E2F9", "U+1E950", "U+1E951", "U+1E952", "U+1E953", "U+1E954",
     "U+1E955", "U+1E956", "U+1E957", "U+1E958", "U+1E959", "U+1FBF0",
     "U+1FBF1", "U+1FBF2", "U+1FBF3", "U+1FBF4", "U+1FBF5", "U+1FBF6",
     "U+1FBF7", "U+1FBF8", "U+1FBF9"}

\* what str.strip() removes: every character for which str.isspace() holds
Whitespace ==
    {"\t", "\n", "U+000B", "\f", "\r", "U+001C", "U+001D", "U+001E", "U+001F",
     " ", "U+0085", "U+00A0", "U+1680", "U+2000", "U+2001", "U+2002", "U+2003",
     "U+2004", "U+2005", "U+2006", "U+2007", "U+2008", "U+2009", "U+200A",
     "U+2028", "U+2029", "U+202F", "U+205F", "U+3000"}

\* sub in s
Contains(s, sub) ==
    \E i \in 1..(Len(s) - Len(sub) + 1) : SubSeq(s, i, i + Len(sub) - 1) = sub

\* s.startswith(prefix)
StartsWith(s, prefix) ==
    Len(s) >= Len(prefix) /\ SubSeq(s, 1, Len(prefix)) = prefix

\* s.strip(): drop the leading and the trailing whitespace
Strip(s) ==
    LET keep == {i \in 1..Len(s) : s[i] \notin Whitespace}
    IN  IF keep = {} THEN <<>>
        ELSE LET lo == CHOOSE i \in keep : \A j \in keep : i <= j
                 hi == CHOOSE i \in keep : \A j \in keep : j <= i
             IN  SubSeq(s, lo, hi)

\* s.replace(old, ""): one left-to-right pass that drops each occurrence found
RECURSIVE ReplaceFrom(_, _, _, _)
ReplaceFrom(s, old, i, count) ==
    IF i + Len(old) - 1 > Len(s) \/ count = 0 THEN SubSeq(s, i, Len(s))
    ELSE IF SubSeq(s, i, i + Len(old) - 1) = old
         THEN ReplaceFrom(s, old, i + Len(old), IF count > 0 THEN count - 1 ELSE count)
         ELSE <<s[i]>> \o ReplaceFrom(s, old, i + 1, count)

\* s.replace(old, "", 1): only the first occurrence is dropped
ReplaceFirstOnly(s, old) == ReplaceFrom(s, old, 1, 1)

\* s.replace(old, "") with the default count of -1: every occurrence the pass
\* finds is dropped
Replace(s, old) == ReplaceFrom(s, old, 1, -1)

\* sep.join(parts)
RECURSIVE Join(_, _)
Join(sep, parts) ==
    IF parts = <<>> THEN <<>>
    ELSE IF Len(parts) = 1 THEN parts[1]
    ELSE parts[1] \o sep \o Join(sep, Tail(parts))

\* tag.get_text(strip=True): every text node stripped, the empty ones
\* skipped, the rest concatenated
RECURSIVE get_text_strip(_)
get_text_strip(nodes) ==
    IF nodes = <<>> THEN <<>>
    ELSE Strip(Head(nodes)) \o get_text_strip(Tail(nodes))

\* tag.text: the text nodes concatenated as they are
RECURSIVE get_text(_)
get_text(nodes) ==
    IF nodes = <<>> THEN <<>> ELSE Head(nodes) \o get_text(Tail(nodes))

\* article_pattern.search(url) with article_pattern = /\d{4}/\d{2}/\d{2}/
article_pattern_search(url) ==
    \E i \in 1..(Len(url) - 11) :
        /\ url[i] = "/"
        /\ \A k \in 1..4 : url[i + k] \in Digits
        /\ url[i + 5] = "/"
        /\ \A k \in 6..7 : url[i + k] \in Digits
        /\ url[i + 8] = "/"
        /\ \A k \in 9..10 : url[i + k] \in Digits
        /\ url[i + 11] = "/"


(***************************************************************************)
(* parse_main_page (lines 92-131).  An anchor is                           *)
(*   [has_href |-> BOOLEAN, href |-> text, nodes |-> <<text, ...>>]        *)
(* and html is the sequence of the document's a elements in document      *)
(* order, as soup.find_all walks them.                                     *)
(***************************************************************************)

\* line 116, mutated: only "Video" is looked for
IsMediaTitle_VideoOnly(title) == Contains(title, VIDEO)

\* line 116: "Video" in title or "Gallery" in title
IsMediaTitle(title) == Contains(title, VIDEO) \/ Contains(title, GALLERY)

\* lines 120-121: a target that starts with "/" gets base_url in front
NormalizeUrl(article_url) ==
    IF StartsWith(article_url, <<"/">>) THEN base_url \o article_url
    ELSE article_url

\* lines 112-124: the loop over soup.find_all("a", href=True); the result
\* is the list `articles` before deduplication
RECURSIVE CollectArticles(_)
CollectArticles(anchors) ==
    IF anchors = <<>> THEN <<>>
    ELSE LET link == Head(anchors)
             rest == CollectArticles(Tail(anchors))
             article_url == link.href
             title == get_text_strip(link.nodes)
         IN  IF ~link.has_href THEN rest
             ELSE IF IsMediaTitle(title) THEN rest
             ELSE IF article_url # <<>> /\ article_pattern_search(article_url)
                     /\ title # <<>>
                  THEN <<[title |-> title, url |-> NormalizeUrl(article_url)]>> \o rest
                  ELSE rest

RECURSIVE DictFirstWins(_, _)
DictFirstWins(articles, acc) ==
    IF articles = <<>> THEN acc
    ELSE LET a == Head(articles)
         IN  IF \E k \in 1..Len(acc) : acc[k].url = a.url
             THEN DictFirstWins(Tail(articles), acc)
             ELSE DictFirstWins(Tail(articles), Append(acc, a))

\* line 126: {article["url"]: article for article in articles}.values().
\* A key seen again keeps its place and takes the new value.
RECURSIVE DictLastWins(_, _)
DictLastWins(articles, acc) ==
    IF articles = <<>> THEN acc
    ELSE LET a == Head(articles)
         IN  IF \E k \in 1..Len(acc) : acc[k].url = a.url
             THEN LET k == CHOOSE k \in 1..Len(acc) : acc[k].url = a.url
                  IN  DictLastWins(Tail(articles), [acc EXCEPT ![k] = a])
             ELSE DictLastWins(Tail(articles), Append(acc, a))

\* line 126, mutated: the first article of a URL is kept
unique_articles_FirstWins(articles) == DictFirstWins(articles, <<>>)

unique_articles(articles) == DictLastWins(articles, <<>>)

\* lines 105-131: BeautifulSoup(html_content, "html.parser") at line 106
\* raises for markup the parser rejects (a marked section with an unknown
\* keyword, "<![foo["); else the anchors are walked and the list is built.
\* printed tells whether the prints of lines 109 and 129-130 went through:
\* print raises OSError on a broken stdout, and nothing catches it.
\* The value is [kind |-> "raise"] or [kind |-> "list", value |-> articles].
parse_main_page(html_content, printed) ==
    IF html_content.rejected \/ ~printed THEN [kind |-> "raise"]
    ELSE [kind |-> "list", value |-> unique_articles(CollectArticles(html_content.html))]

(***************************************************************************)
(* fetch_article (lines 133-191).  A response of session.get is            *)
(*   [kind |-> "RequestException"]   raised by get or raise_for_status,    *)
(*   [kind |-> "OtherException"]     an exception of another class raised  *)
(*                                   inside the try body (lines 148-188),  *)
(*   [kind |-> "ok", page |-> p]     a page, p being                       *)
(*     [h1 |-> [present, nodes], timestamp |-> [present, nodes, parses,    *)
(*      strptime], primary |-> <<nodes, ...>>, generic |-> <<nodes, ...>>] *)
(* primary: the div.paragraph__content elements; generic: the p elements;  *)
(* strptime: what datetime.strptime(...).strftime(...) gives for the       *)
(* timestamp text when parses is TRUE (else it raises ValueError).         *)
(* The value of fetch_article is [kind |-> "None"], [kind |-> "raise"] or  *)
(* [kind |-> "article", title, date, content, url].                        *)
(***************************************************************************)

\* lines 159-160
ArticleTitle(page, article_info) ==
    IF page.h1.present THEN Strip(get_text(page.h1.nodes)) ELSE article_info.title

\* lines 162-173
ArticleDate(page) ==
    LET date_str == Strip(get_text(page.timestamp.nodes))
    IN  IF page.timestamp.present /\ date_str # <<>> /\ page.timestamp.parses
        THEN page.timestamp.strptime
        ELSE NO_DATE_FOUND

\* lines 175-177: find_all(div.paragraph__content) or find_all("p")
Paragraphs(page) == IF page.primary # <<>> THEN page.primary ELSE page.generic

RECURSIVE ParagraphTexts(_)
ParagraphTexts(paragraphs) ==
    IF paragraphs = <<>> THEN <<>>
    ELSE <<get_text_strip(Head(paragraphs))>> \o ParagraphTexts(Tail(paragraphs))

\* lines 178-182
JoinedContent(page) ==
    IF Paragraphs(page) # <<>>
    THEN Join(NEWLINE, ParagraphTexts(Paragraphs(page)))
    ELSE NO_CONTENT_FOUND

\* line 183, mutated: only the first "Follow:" is removed
CleanContent_FirstOnly(content) == Strip(ReplaceFirstOnly(content, FOLLOW))

\* line 183: content.replace("Follow:", "").strip()
CleanContent(content) == Strip(Replace(content, FOLLOW))

\* lines 146-191, mutated: a failed request yields an error record
fetch_article_ErrorRecord(article_info, response, printed) ==
    IF ~printed THEN [kind |-> "raise"]
    ELSE IF response.kind = "RequestException"
    THEN [kind |-> "article", title |-> article_info.title, date |-> NO_DATE_FOUND,
          content |-> NO_CONTENT_FOUND, url |-> article_info.url]
    ELSE IF response.kind = "OtherException" THEN [kind |-> "raise"]
    ELSE [kind |-> "article",
          title |-> ArticleTitle(response.page, article_info),
          date |-> ArticleDate(response.page),
          content |-> CleanContent(JoinedContent(response.page)),
          url |-> article_info.url]

\* lines 146-191.  printed tells whether the prints of the call went
\* through (lines 152 and 186 in the try body, line 190 in the handler):
\* the OSError of a print on a broken stdout is no RequestException and
\* leaves fetch_article.
fetch_article(article_info, response, printed) ==
    IF ~printed THEN [kind |-> "raise"]
    ELSE IF response.kind = "RequestException" THEN [kind |-> "None"]
    ELSE IF response.kind = "OtherException" THEN [kind |-> "raise"]
    ELSE [kind |-> "article",
          title |-> ArticleTitle(response.page, article_info),
          date |-> ArticleDate(response.page),
          content |-> CleanContent(JoinedContent(response.page)),
          url |-> article_info.url]

\* lines 80-90: fetch_main_page gives response.text, None when get or
\* raise_for_status raised a RequestException, and raises when the try
\* body raised an exception of another class.  A landing response is
\* [kind |-> "ok", "RequestException" or "OtherException", empty |-> BOOLEAN,
\* rejected |-> BOOLEAN, html |-> anchors]: its body, empty marking the
\* text "", rejected marking markup that html.parser refuses.  printed
\* tells whether the prints of the call went through (lines 82 and 86 in
\* the try body, line 89 in the handler); the OSError of a failed print
\* is no RequestException and leaves fetch_main_page.
fetch_main_page(response, printed) ==
    IF ~printed THEN [kind |-> "raise"]
    ELSE IF response.kind = "ok"
    THEN [kind |-> "str", empty |-> response.empty, rejected |-> response.rejected,
          html |-> response.html]
    ELSE IF response.kind = "RequestException" THEN [kind |-> "None"]
    ELSE [kind |-> "raise"]

\* line 204: if html_content
Truthy(html_content) == html_content.kind = "str" /\ ~html_content.empty

(***************************************************************************)
(* Inputs: the documents and responses the environment can supply.         *)
(***************************************************************************)
SeqsUpTo(S, n) == UNION {[1..k -> S] : k \in 0..n}

H_REL_A == <<"/", "2", "0", "2", "4", "/", "0", "3", "/", "1", "5", "/", "a">>
H_REL_B == <<"/", "2", "0", "2", "4", "/", "0", "3", "/", "1", "5", "/", "b">>
H_REL_C == <<"/", "2", "0", "2", "4", "/", "0", "3", "/", "1", "5", "/", "c">>
H_ABS_A == <<"h", "t", "t", "p", "s", ":", "/", "/", "w", "w", "w", ".", "c", "n", "n", ".", "c", "o", "m", "/", "2", "0", "2", "4", "/", "0", "3", "/", "1", "5", "/", "a">>
H_SHORT_MONTH == <<"/", "2", "0", "2", "4", "/", "3", "/", "1", "5", "/", "a">>
H_FULLWIDTH_B == <<"/", "U+FF12", "U+FF10", "U+FF12", "U+FF14", "/", "0", "3", "/", "1", "5", "/", "b">>

T_STORY_A == <<"S", "t", "o", "r", "y", " ", "A">>
T_STORY_B == <<" ", "S", "t", "o", "r", "y", " ", "B", " ">>
T_STORY_C == <<"S", "t", "o", "r", "y", " ", "C">>
T_VID == <<"V", "i", "d">>
T_EO_CLIP == <<"e", "o", " ", "c", "l", "i", "p">>
T_GALLERY_X == <<"G", "a", "l", "l", "e", "r", "y", ":", " ", "x">>
T_BLANK == <<" ", "U+00A0", "\f">>
T_HEAD_LINE == <<" ", "H", "e", "a", "d", " ", "l", "i", "n", "e", " ">>
T_FOL == <<"F", "o", "l">>
T_FOLLOW_LOW_A_FOLLOW == <<" ", "F", "o", "l", "l", "o", "w", ":", "l", "o", "w", ":", " ", "a", "U+00A0", "F", "o", "l", "l", "o", "w", ":", " ">>
T_FOLLOW_A == <<" ", "F", "o", "l", "l", "o", "w", ":", " ", "a", " ">>
T_UPDATED == <<"U", "p", "d", "a", "t", "e", "d", " ", "9", ":", "0", "5", " ", "A", "M", " ", "U", "T", "C", ",", " ", "F", "r", "i", " ", "M", "a", "r", "c", "h", " ", "1", "5", ",", " ", "2", "0", "2", "4">>
T_PARSED_DATE == <<"2", "0", "2", "4", "-", "0", "3", "-", "1", "5", " ", "0", "9", ":", "0", "5", ":", "0", "0">>

Anchor(href, nodes) == [has_href |-> TRUE, href |-> href, nodes |-> nodes]

\* the anchors of the parsing specification: every target with every text,
\* and an a element without href
HrefSamples == {H_REL_A, H_ABS_A, H_REL_B, H_SHORT_MONTH, H_FULLWIDTH_B}
NodesSamples ==
    {<<T_STORY_A>>, <<T_STORY_B>>, <<T_VID, T_EO_CLIP>>, <<T_GALLERY_X>>, <<T_BLANK>>}
AnchorSamples ==
    {Anchor(h, n) : h \in HrefSamples, n \in NodesSamples}
        \cup {[has_href |-> FALSE, href |-> <<>>, nodes |-> <<T_STORY_A>>]}

\* the anchors of the crawl specification: three stories
CrawlAnchors ==
    {Anchor(H_REL_A, <<T_STORY_A>>), Anchor(H_REL_B, <<T_STORY_B>>),
     Anchor(H_REL_C, <<T_STORY_C>>)}

\* the body of a non-success answer: an error page that links one story
ErrorPage == <<Anchor(H_REL_A, <<T_STORY_A>>)>>

\* what session.get(base_url) and raise_for_status can do besides handing
\* over a document: raise without an answer (connection error, timeout),
\* raise on a non-success answer that has a body, succeed with the empty
\* text, or raise an exception that is no RequestException (for one, the
\* UnicodeEncodeError of a user agent outside latin-1)
LandingNoDocument ==
    {[kind |-> "RequestException", empty |-> TRUE, rejected |-> FALSE, html |-> <<>>],
     [kind |-> "RequestException", empty |-> FALSE, rejected |-> FALSE,
      html |-> ErrorPage],
     [kind |-> "ok", empty |-> TRUE, rejected |-> FALSE, html |-> <<>>],
     [kind |-> "OtherException", empty |-> TRUE, rejected |-> FALSE, html |-> <<>>]}

\* a successful answer whose body is the document html
LandingDocument(html) ==
    [kind |-> "ok", empty |-> FALSE, rejected |-> FALSE, html |-> html]

\* successful answers whose body the parser rejects: "<![foo[bar]]>", and
\* a story link followed by "<![foo["
LandingRejected ==
    {[kind |-> "ok", empty |-> FALSE, rejected |-> TRUE, html |-> <<>>],
     [kind |-> "ok", empty |-> FALSE, rejected |-> TRUE, html |-> ErrorPage]}

NoTag == [present |-> FALSE, nodes |-> <<>>]
NoTimestamp ==
    [present |-> FALSE, nodes |-> <<>>, parses |-> FALSE, strptime |-> <<>>]

Page(h1, timestamp, primary, generic) ==
    [h1 |-> h1, timestamp |-> timestamp, primary |-> primary, generic |-> generic]

\* an article page with a heading, a timestamp and one content paragraph
PageFull ==
    Page([present |-> TRUE, nodes |-> <<T_HEAD_LINE>>],
         [present |-> TRUE, nodes |-> <<T_UPDATED>>, parses |-> TRUE,
          strptime |-> T_PARSED_DATE],
         << <<T_FOLLOW_A>> >>, << <<T_STORY_A>> >>)

\* an article page with none of the elements fetch_article looks for
PageBare == Page(NoTag, NoTimestamp, <<>>, <<>>)

\* an article page whose timestamp text strptime rejects
PageBadDate ==
    Page(NoTag,
         [present |-> TRUE, nodes |-> <<T_STORY_A>>, parses |-> FALSE,
          strptime |-> <<>>],
         <<>>, << <<T_STORY_A>> >>)

\* text nodes of a paragraph: "Fol", and " Follow:low: a&nbsp;Follow: "
PieceSamples == {T_FOL, T_FOLLOW_LOW_A_FOLLOW}
ParagraphSamples == SeqsUpTo(PieceSamples, MaxPieces)

\* the pages built around a list ps of paragraph elements: ps as the
\* primary match, without and with p elements beside it, and ps as the
\* p elements of a page without primary match
PagesAround(ps) ==
    {Page(NoTag, NoTimestamp, ps, <<>>),
     Page(NoTag, NoTimestamp, ps, << <<T_STORY_A>> >>),
     Page(NoTag, NoTimestamp, <<>>, ps)}

\* what session.get(url) and the rest of the try body can do besides
\* handing over a page: raise a RequestException (connection error,
\* timeout, non-success status) or raise an exception of another class
ArticleFailures == {[kind |-> "RequestException"], [kind |-> "OtherException"]}

\* a successful answer whose body parses to page
ArticlePage(page) == [kind |-> "ok", page |-> page]

\* the answers of the crawl specification
CrawlArticleResponses == ArticleFailures \cup {ArticlePage(PageFull)}

\* the fixed answers of the article specification
FixedArticleResponses ==
    ArticleFailures
        \cup {ArticlePage(PageFull), ArticlePage(PageBare), ArticlePage(PageBadDate)}

(***************************************************************************)
(* State.  pc is the main thread's position (main_N, gmpa_N: line N of     *)
(* main / get_main_page_articles); tasks[i] is the future of articles[i].  *)
(* The process has ended when pc is "exited" (sys.exit(1) at line 244 or   *)
(* the end of main), "traceback" (an uncaught exception), or               *)
(* "argparse_help" / "argparse_error" (parse_args ended it at line 231).   *)
(* An action's parameter printed tells whether the prints of the step went *)
(* through; print raises OSError on a broken stdout and UnicodeEncodeError *)
(* on one whose encoding cannot encode the text.                           *)
(***************************************************************************)
VARIABLES
    pc,             \* position of the main thread
    threads,        \* self.threads (args.threads)
    main_response,  \* what session.get(base_url) did in fetch_main_page
    html_content,   \* line 203
    articles,       \* line 205
    tasks,          \* the work items submitted to the executor, in order
    yielded,        \* the futures as_completed has handed to the loop
    results,        \* line 209
    returned,       \* how get_main_page_articles ended
    exit_status,    \* the process's exit status; -1 while it runs
    streams         \* stdout and stderr: "open", then how the interpreter's
                    \* last flush of them went, "flushed" or "flush_failed"

vars ==
    <<pc, threads, main_response, html_content, articles, tasks, yielded,
      results, returned, exit_status, streams>>

NewTask ==
    [st |-> "pending", starts |-> 0, response |-> [kind |-> "none"],
     ret |-> [kind |-> "pending"]]

Running == {i \in DOMAIN tasks : tasks[i].st = "running"}

\* the process starts with its arguments; -t takes any int (type=int,
\* line 26): a negative one, zero, or a positive one up to MaxThreads
Init ==
    /\ pc = "main_231"
    /\ threads \in {-1, 0} \cup (1..MaxThreads)
    /\ main_response = [kind |-> "none"]
    /\ html_content = [kind |-> "unset"]
    /\ articles = <<>>
    /\ tasks = <<>>
    /\ yielded = {}
    /\ results = <<>>
    /\ returned = [kind |-> "pending"]
    /\ exit_status = -1
    /\ streams = "open"

\* lines 230-234: parse_args accepts the arguments and the scraper is built
ParseArgs ==
    /\ pc = "main_231"
    /\ pc' = "main_237"
    /\ UNCHANGED <<threads, main_response, html_content, articles, tasks, yielded,
                   results, returned, exit_status, streams>>

\* the end of the process: the interpreter flushes sys.stdout and
\* sys.stderr; when that fails (a full device, a pipe whose reader has
\* gone) the exit status is 120 whatever status the program asked for
Finalize(status, streams_flush) == IF streams_flush THEN status ELSE 120

\* the process ends with the status asked for, or with 120
Exit(status) ==
    \E streams_flush \in BOOLEAN :
        /\ exit_status' = Finalize(status, streams_flush)
        /\ streams' = IF streams_flush THEN "flushed" ELSE "flush_failed"

\* line 231: parse_args ends the process: --help prints the usage on
\* stdout and exits with status 0, a rejected argument (-t x) is reported
\* on stderr and exits with status 2; argparse swallows the OSError of a
\* failed write of its message, and no other exception
ParseArgsExits(status) ==
    /\ pc = "main_231"
    /\ Exit(status)
    /\ pc' = IF status = 0 THEN "argparse_help" ELSE "argparse_error"
    /\ UNCHANGED <<threads, main_response, html_content, articles, tasks, yielded,
                   results, returned>>

\* line 231: --help on a stdout whose encoding cannot encode the
\* box-drawing characters of the description (lines 14-19): the write
\* raises UnicodeEncodeError, which leaves parse_args and main
ParseArgsRaises ==
    /\ pc = "main_231"
    /\ pc' = "main_crash"
    /\ UNCHANGED <<threads, main_response, html_content, articles, tasks, yielded,
                   results, returned, exit_status, streams>>

\* lines 237, 203 and 70-90: main calls get_main_page_articles, which calls
\* fetch_main_page; response is what the network answers.  An exception
\* fetch_main_page lets through leaves get_main_page_articles at line 203.
FetchMainPageGets(response, printed) ==
    /\ main_response' = response
    /\ IF fetch_main_page(response, printed).kind = "raise"
       THEN /\ returned' = [kind |-> "raise"]
            /\ pc' = "main_crash"
            /\ UNCHANGED html_content
       ELSE /\ html_content' = fetch_main_page(response, printed)
            /\ pc' = "gmpa_204"
            /\ UNCHANGED returned
    /\ UNCHANGED <<threads, articles, tasks, yielded, results, exit_status, streams>>

\* the same, the landing page being any document of up to n anchors drawn
\* from anchors, or no document at all
FetchMainPage(anchors, n) ==
    /\ pc = "main_237"
    /\ \E printed \in BOOLEAN :
        \/ \E r \in LandingNoDocument : FetchMainPageGets(r, printed)
        \/ \E r \in LandingRejected : FetchMainPageGets(r, printed)
        \/ \E k \in 0..n : \E html \in [1..k -> anchors] :
               FetchMainPageGets(LandingDocument(html), printed)

\* lines 204-205: an exception out of parse_main_page leaves
\* get_main_page_articles at line 205
ParseMainPage(printed) ==
    /\ pc = "gmpa_204"
    /\ Truthy(html_content)
    /\ IF parse_main_page(html_content, printed).kind = "raise"
       THEN /\ returned' = [kind |-> "raise"]
            /\ pc' = "main_crash"
            /\ UNCHANGED articles
       ELSE /\ articles' = parse_main_page(html_content, printed).value
            /\ pc' = "gmpa_206"
            /\ UNCHANGED returned
    /\ UNCHANGED <<threads, main_response, html_content, tasks, yielded, results,
                   exit_status, streams>>

\* get_main_page_articles ends: it returns value when its last print went
\* through, and the OSError of that print leaves it otherwise
ReturnOrRaise(value, printed) ==
    IF printed
    THEN returned' = [kind |-> "return", value |-> value] /\ pc' = "main_242"
    ELSE returned' = [kind |-> "raise"] /\ pc' = "main_crash"

\* lines 204, 225-227
ReturnFailed(printed) ==
    /\ pc = "gmpa_204"
    /\ ~Truthy(html_content)
    /\ ReturnOrRaise(<<>>, printed)
    /\ UNCHANGED <<threads, main_response, html_content, articles, tasks, yielded,
                   results, exit_status, streams>>

\* lines 206, 222-224
ReturnNoArticles(printed) ==
    /\ pc = "gmpa_206"
    /\ articles = <<>>
    /\ ReturnOrRaise(<<>>, printed)
    /\ UNCHANGED <<threads, main_response, html_content, articles, tasks, yielded,
                   results, exit_status, streams>>

\* lines 206-210: the print of line 207, results = [], and the executor is
\* created; ThreadPoolExecutor(max_workers) raises ValueError when
\* max_workers <= 0.  Either exception leaves get_main_page_articles.
OpenPool(printed) ==
    /\ pc = "gmpa_206"
    /\ articles # <<>>
    /\ IF ~printed
       THEN returned' = [kind |-> "raise"] /\ pc' = "main_crash" /\ UNCHANGED results
       ELSE /\ results' = <<>>
            /\ IF threads <= 0
               THEN returned' = [kind |-> "raise"] /\ pc' = "main_crash"
               ELSE pc' = "gmpa_212" /\ UNCHANGED returned
    /\ UNCHANGED <<threads, main_response, html_content, articles, tasks, yielded,
                   exit_status, streams>>

\* lines 211-214: executor.submit for the next article; after the last one
\* the loop over as_completed begins
Submit ==
    /\ pc = "gmpa_212"
    /\ Len(tasks) < Len(articles)
    /\ tasks' = Append(tasks, NewTask)
    /\ pc' = IF Len(tasks) + 1 = Len(articles) THEN "gmpa_215" ELSE pc
    /\ UNCHANGED <<threads, main_response, html_content, articles, yielded, results,
                   returned, exit_status, streams>>

\* line 210, mutated: a thread per submitted task
WorkerAvailable_Unbounded == TRUE

\* line 210: ThreadPoolExecutor(max_workers=self.threads) runs at most
\* self.threads work items at a time
WorkerAvailable == Cardinality(Running) < threads

\* a worker thread takes the oldest queued work item and calls fetch_article
TaskStart(i) ==
    /\ i \in DOMAIN tasks
    /\ tasks[i].st = "pending"
    /\ \A j \in 1..(i - 1) : tasks[j].st # "pending"
    /\ WorkerAvailable
    /\ tasks' = [tasks EXCEPT ![i].st = "running", ![i].starts = @ + 1]
    /\ UNCHANGED <<pc, threads, main_response, html_content, articles, yielded,
                   results, returned, exit_status, streams>>

\* lines 146-191: fetch_article(articles[i]) ends and settles its future
TaskFinish(i, response, printed) ==
    /\ i \in DOMAIN tasks
    /\ tasks[i].st = "running"
    /\ tasks' = [tasks EXCEPT ![i].st = "done", ![i].response = response,
                              ![i].ret = fetch_article(articles[i], response, printed)]
    /\ UNCHANGED <<pc, threads, main_response, html_content, articles, yielded,
                   results, returned, exit_status, streams>>

\* line 217: if result
ResultTruthy(result) == result.kind = "article"

\* lines 215-218: as_completed yields a finished future; future.result()
\* re-raises what the task raised
Collect(i) ==
    /\ pc = "gmpa_215"
    /\ i \in DOMAIN tasks
    /\ tasks[i].st = "done"
    /\ i \notin yielded
    /\ yielded' = yielded \cup {i}
    /\ IF tasks[i].ret.kind = "raise"
       THEN pc' = "gmpa_unwind" /\ UNCHANGED results
       ELSE IF ResultTruthy(tasks[i].ret)
            THEN results' = Append(results, tasks[i].ret) /\ UNCHANGED pc
            ELSE UNCHANGED <<pc, results>>
    /\ UNCHANGED <<threads, main_response, html_content, articles, tasks, returned,
                   exit_status, streams>>

\* lines 215, 220-221: the loop is over, the with block is left, the
\* count is printed and results is returned
ReturnResults(printed) ==
    /\ pc = "gmpa_215"
    /\ yielded = DOMAIN tasks
    /\ ReturnOrRaise(results, printed)
    /\ UNCHANGED <<threads, main_response, html_content, articles, tasks, yielded,
                   results, exit_status, streams>>

\* line 210: leaving the with block on an exception, the executor's
\* shutdown(wait=True) waits for every work item; then the exception leaves
\* get_main_page_articles
RaiseOut ==
    /\ pc = "gmpa_unwind"
    /\ \A i \in DOMAIN tasks : tasks[i].st = "done"
    /\ returned' = [kind |-> "raise"]
    /\ pc' = "main_crash"
    /\ UNCHANGED <<threads, main_response, html_content, articles, tasks, yielded,
                   results, exit_status, streams>>

\* line 242, mutated: the empty list is not told apart, sys.exit(1) is
\* never called
NotArticles_NeverExits(main_articles) == FALSE

\* line 242: not articles
NotArticles(main_articles) == main_articles = <<>>

\* lines 240-244: the time is printed; sys.exit(1), after one more print,
\* when the list is empty, else on to the output.  The OSError of a failed
\* print ends main.
MainCheck(printed) ==
    /\ pc = "main_242"
    /\ IF ~printed
       THEN pc' = "main_crash" /\ UNCHANGED <<exit_status, streams>>
       ELSE IF NotArticles(returned.value)
            THEN Exit(1) /\ pc' = "exited"
            ELSE pc' = "main_246" /\ UNCHANGED <<exit_status, streams>>
    /\ UNCHANGED <<threads, main_response, html_content, articles, tasks, yielded,
                   results, returned>>

\* lines 246-261: the articles are printed or written to the JSON file and
\* main returns: exit status 0
MainOutput ==
    /\ pc = "main_246"
    /\ Exit(0)
    /\ pc' = "exited"
    /\ UNCHANGED <<threads, main_response, html_content, articles, tasks, yielded,
                   results, returned>>

\* lines 246-261: the output raises (open at line 259 on a path that
\* cannot be written, a print on a broken stdout)
MainOutputRaises ==
    /\ pc = "main_246"
    /\ pc' = "main_crash"
    /\ UNCHANGED <<threads, main_response, html_content, articles, tasks, yielded,
                   results, returned, exit_status, streams>>

\* an exception out of parse_args (line 231), out of
\* get_main_page_articles (line 237), out of a print of main or out of
\* the output (lines 240-261) is caught nowhere; the
\* interpreter prints the traceback and exits with status 1
MainCrash ==
    /\ pc = "main_crash"
    /\ Exit(1)
    /\ pc' = "traceback"
    /\ UNCHANGED <<threads, main_response, html_content, articles, tasks, yielded,
                   results, returned>>

Next ==
    \/ ParseArgs
    \/ \E status \in {0, 2} : ParseArgsExits(status)
    \/ ParseArgsRaises
    \/ FetchMainPage(CrawlAnchors, MaxLinks)
    \/ \E printed \in BOOLEAN : ParseMainPage(printed)
    \/ \E printed \in BOOLEAN : ReturnFailed(printed)
    \/ \E printed \in BOOLEAN : ReturnNoArticles(printed)
    \/ \E printed \in BOOLEAN : OpenPool(printed)
    \/ Submit
    \/ \E i \in DOMAIN tasks : TaskStart(i)
    \/ \E i \in DOMAIN tasks : \E r \in CrawlArticleResponses :
           \E printed \in BOOLEAN : TaskFinish(i, r, printed)
    \/ \E i \in DOMAIN tasks : Collect(i)
    \/ \E printed \in BOOLEAN : ReturnResults(printed)
    \/ RaiseOut
    \/ \E printed \in BOOLEAN : MainCheck(printed)
    \/ MainOutput
    \/ MainOutputRaises
    \/ MainCrash

\* the whole run: main() on a landing page of up to MaxLinks stories
Spec == Init /\ [][Next]_vars

\* parse_main_page on every landing page of up to MaxAnchors anchors
NextParse ==
    \/ ParseArgs
    \/ FetchMainPage(AnchorSamples, MaxAnchors)
    \/ \E printed \in BOOLEAN : ParseMainPage(printed)

InitParse == Init /\ threads = 1

SpecParse == InitParse /\ [][NextParse]_vars

\* fetch_article on every article page of up to MaxParagraphs paragraph
\* elements of up to MaxPieces text nodes: the run at line 215, one story
\* submitted
InitArticle ==
    /\ pc = "gmpa_215"
    /\ threads = 1
    /\ main_response = LandingDocument(<<Anchor(H_REL_A, <<T_STORY_A>>)>>)
    /\ html_content = fetch_main_page(main_response, TRUE)
    /\ articles = parse_main_page(html_content, TRUE).value
    /\ tasks = <<NewTask>>
    /\ yielded = {}
    /\ results = <<>>
    /\ returned = [kind |-> "pending"]
    /\ exit_status = -1
    /\ streams = "open"

NextArticle ==
    \/ \E i \in DOMAIN tasks : TaskStart(i)
    \/ \E i \in DOMAIN tasks : \E r \in FixedArticleResponses :
           \E printed \in BOOLEAN : TaskFinish(i, r, printed)
    \/ \E i \in DOMAIN tasks :
           /\ tasks[i].st = "running"
           /\ \E m \in 0..MaxParagraphs : \E ps \in [1..m -> ParagraphSamples] :
                  \E page \in PagesAround(ps) : TaskFinish(i, ArticlePage(page), TRUE)

SpecArticle == InitArticle /\ [][NextArticle]_vars

(***************************************************************************)
(* Properties.                                                             *)
(***************************************************************************)
Done(i) == tasks[i].st = "done"
\* the fetch of link i succeeded and fetch_article returned its Article
FetchOk(i) ==
    Done(i) /\ tasks[i].response.kind = "ok" /\ tasks[i].ret.kind = "article"
FetchFailed(i) == Done(i) /\ tasks[i].response.kind # "ok"
Elements(seq) == {seq[k] : k \in 1..Len(seq)}

\* C1: at every moment of every interleaving, the number of fetch_article
\* calls that have started and not yet finished is at most self.threads
\* when that limit is positive (and no call is ever started when it is not).
C1_ConcurrencyBound ==
    Cardinality(Running) <= (IF threads > 0 THEN threads ELSE 0)

\* C1's case: more links than threads, every thread busy, a link waiting.
C1_Witness ==
    /\ threads > 0
    /\ Len(articles) > threads
    /\ Cardinality(Running) = threads
    /\ \E i \in DOMAIN tasks : tasks[i].st = "pending"

\* C2: every element of the list get_main_page_articles returns is an
\* Article made from a link whose fetch succeeded and carries that link's
\* url; a link whose fetch failed has no element in the list.
C2_ReturnedArticles ==
    returned.kind = "return" =>
        /\ \A a \in Elements(returned.value) :
            /\ a.kind = "article"
            /\ \E i \in DOMAIN tasks :
                FetchOk(i) /\ a.url = articles[i].url /\ a = tasks[i].ret
        /\ \A i \in DOMAIN tasks :
            FetchFailed(i) =>
                \A a \in Elements(returned.value) :
                    a.kind = "article" /\ a.url # articles[i].url

\* C2's case: a returned list with an Article, one link's fetch having
\* failed with a RequestException.
C2_Witness ==
    /\ returned.kind = "return"
    /\ returned.value # <<>>
    /\ \E i \in DOMAIN tasks :
        Done(i) /\ tasks[i].response.kind = "RequestException"

\* C3: whenever fetch_article fails for a link, by a request error or by
\* any other failure raised while fetching or extracting, it returns no
\* result instead of raising, and no exception leaves
\* get_main_page_articles.
C3_Claim ==
    \A i \in DOMAIN tasks :
        FetchFailed(i) => (tasks[i].ret.kind = "None" /\ returned.kind # "raise")

\* the landing-page fetch is over and has failed (fetch_main_page gave
\* nothing usable)
LandingFailed == main_response.kind # "none" /\ ~Truthy(html_content)

\* link extraction is over and has found no link
NoLinks ==
    /\ pc \notin {"main_231", "main_237", "gmpa_204"}
    /\ Truthy(html_content)
    /\ ~html_content.rejected
    /\ articles = <<>>

\* C4: when the landing-page fetch fails or link extraction finds no link,
\* get_main_page_articles submits no task, starts no fetch, does not
\* raise, and what it returns is the empty list.
C4_Claim ==
    (LandingFailed \/ NoLinks) =>
        /\ tasks = <<>>
        /\ returned.kind # "raise"
        /\ returned.kind = "return" => returned.value = <<>>

\* the Articles the run hands to main: those of the returned list
ArticlesYielded == IF returned.kind = "return" THEN returned.value ELSE <<>>

\* the process has ended
Ended == pc \in {"exited", "traceback", "argparse_help", "argparse_error"}

\* C5 as stated: once the pipeline has run, the process exits with a
\* non-zero status exactly when the run yields zero articles, and with
\* status 0 when at least one Article is returned.
C5_Claim ==
    (Ended /\ main_response.kind # "none") =>
        (exit_status # 0 <=> ArticlesYielded = <<>>)

\* the status the program asks for at its end
AskedStatus ==
    CASE pc = "exited" -> (IF ArticlesYielded = <<>> THEN 1 ELSE 0)
      [] pc = "traceback" -> 1
      [] pc = "argparse_help" -> 0
      [] pc = "argparse_error" -> 2

\* C5: the exit status is 120 when the interpreter's last flush of stdout
\* and stderr fails; otherwise a process that ends at sys.exit(1) or at
\* the end of main exits with status 1 when the run yields zero articles
\* and with status 0 when at least one Article is returned and written
\* out, however many fetches failed; one that ends on an uncaught
\* exception (out of parse_args printing the help, out of the pipeline, of
\* a print or of the output) exits with
\* status 1, Articles returned or not; one that parse_args ends has run no
\* pipeline and exits with 0 (--help) or 2 (rejected argument).  So a run
\* of the pipeline that yields zero articles never exits with status 0.
\* A returned list is empty exactly when the landing-page fetch failed, no
\* link was found or no article fetch succeeded.
C5_ExitStatus ==
    /\ Ended =>
        /\ streams \in {"flushed", "flush_failed"}
        /\ exit_status = (IF streams = "flush_failed" THEN 120 ELSE AskedStatus)
    /\ (Ended /\ main_response.kind # "none" /\ ArticlesYielded = <<>>) =>
        exit_status # 0
    /\ pc \in {"argparse_help", "argparse_error"} => main_response.kind = "none"
    /\ ~Ended => (exit_status = -1 /\ streams = "open")
    /\ returned.kind = "return" =>
        (returned.value = <<>> <=>
            \/ LandingFailed
            \/ NoLinks
            \/ \A i \in DOMAIN tasks : ~FetchOk(i))

\* C5's case: the process has exited with status 0 although a fetch failed.
C5_Witness ==
    /\ pc = "exited"
    /\ exit_status = 0
    /\ \E i \in DOMAIN tasks : FetchFailed(i)

\* the anchors parse_main_page keeps: an href with the date path, a text
\* that is not empty and names neither "Video" nor "Gallery"
HasDatePath(url) ==
    \E i \in 1..(Len(url) - 11) :
        \A k \in 0..11 :
            IF k \in {0, 5, 8, 11} THEN url[i + k] = "/" ELSE url[i + k] \in Digits

VisibleText(anchor) == get_text_strip(anchor.nodes)

NamesMedia(text) == Contains(text, VIDEO) \/ Contains(text, GALLERY)

Kept(anchor) ==
    /\ anchor.has_href
    /\ HasDatePath(anchor.href)
    /\ VisibleText(anchor) # <<>>
    /\ ~NamesMedia(VisibleText(anchor))

Target(anchor) ==
    IF anchor.href # <<>> /\ anchor.href[1] = "/" THEN base_url \o anchor.href
    ELSE anchor.href

\* C6: parse_main_page returns at most one reference per normalized target
\* URL, and the title of a reference is the visible text of the last of
\* the kept anchors that share its target URL.
C6_DedupLastWins ==
    pc = "gmpa_206" =>
        LET html == html_content.html
        IN  /\ \A j, k \in 1..Len(articles) :
                j # k => articles[j].url # articles[k].url
            /\ \A k \in 1..Len(articles) :
                LET same == {n \in 1..Len(html) :
                                Kept(html[n]) /\ Target(html[n]) = articles[k].url}
                IN  /\ same # {}
                    /\ \A n \in same :
                        (\A m \in same : m <= n) =>
                            articles[k].title = VisibleText(html[n])

\* C6's case: two kept anchors, one relative and one absolute, with the
\* same normalized target and different texts.
C6_Witness ==
    /\ pc = "gmpa_206"
    /\ Len(articles) = 1
    /\ Len(html_content.html) = 2
    /\ html_content.html[1].href # html_content.html[2].href
    /\ Kept(html_content.html[1]) /\ Kept(html_content.html[2])
    /\ VisibleText(html_content.html[1]) # VisibleText(html_content.html[2])

\* C7: every reference parse_main_page returns has a URL with the date
\* path and comes from an anchor whose visible text is not empty and
\* contains neither "Video" nor "Gallery"; an anchor whose text contains
\* "Video" or "Gallery" gives no reference, whatever its URL.
C7_OnlyDatedNonMedia ==
    pc = "gmpa_206" =>
        LET html == html_content.html
        IN  /\ \A r \in Elements(articles) :
                /\ HasDatePath(r.url)
                /\ r.title # <<>>
                /\ ~NamesMedia(r.title)
                /\ \E n \in 1..Len(html) :
                    /\ html[n].has_href
                    /\ Target(html[n]) = r.url
                    /\ VisibleText(html[n]) = r.title
            /\ \A n \in 1..Len(html) :
                NamesMedia(VisibleText(html[n])) =>
                    \A r \in Elements(articles) : r.title # VisibleText(html[n])

\* C7's case: a page with a "Gallery" anchor on a dated URL beside a story.
C7_Witness ==
    /\ pc = "gmpa_206"
    /\ articles # <<>>
    /\ \E n \in 1..Len(html_content.html) :
        /\ html_content.html[n].has_href
        /\ HasDatePath(html_content.html[n].href)
        /\ Contains(VisibleText(html_content.html[n]), GALLERY)

NoEdgeWhitespace(s) ==
    s = <<>> \/ (s[1] \notin Whitespace /\ s[Len(s)] \notin Whitespace)

\* C8 as stated: the body of a returned Article contains no "Follow:" and
\* has no leading or trailing whitespace.
C8_Claim ==
    \A i \in DOMAIN tasks :
        FetchOk(i) =>
            /\ ~Contains(tasks[i].ret.content, FOLLOW)
            /\ NoEdgeWhitespace(tasks[i].ret.content)

\* the positions of text that lie inside an occurrence of "Follow:"
InFollow(text, j) ==
    \E p \in (j - Len(FOLLOW) + 1)..j :
        p >= 1 /\ p + Len(FOLLOW) - 1 <= Len(text)
               /\ SubSeq(text, p, p + Len(FOLLOW) - 1) = FOLLOW

\* text without the characters of its occurrences of "Follow:"
RECURSIVE WithoutFollowFrom(_, _)
WithoutFollowFrom(text, j) ==
    IF j > Len(text) THEN <<>>
    ELSE (IF InFollow(text, j) THEN <<>> ELSE <<text[j]>>)
             \o WithoutFollowFrom(text, j + 1)

\* C8 amended: the body of a returned Article is the assembled text with
\* the characters of every occurrence of "Follow:" in it deleted and the
\* whitespace around the rest trimmed; it has no leading or trailing
\* whitespace.  (A "Follow:" that only the deletion puts together stays.)
C8_FollowOccurrencesDeleted ==
    \A i \in DOMAIN tasks :
        FetchOk(i) =>
            LET body == tasks[i].ret.content
                rest == WithoutFollowFrom(JoinedContent(tasks[i].response.page), 1)
            IN  /\ NoEdgeWhitespace(body)
                /\ \E a \in 0..Len(rest) :
                    /\ a + Len(body) <= Len(rest)
                    /\ SubSeq(rest, a + 1, a + Len(body)) = body
                    /\ \A j \in (1..a) \cup ((a + Len(body) + 1)..Len(rest)) :
                        rest[j] \in Whitespace

\* C8's case: the assembled text holds "Follow:" twice and, once they are
\* deleted, ends with whitespace that is trimmed.
C8_Witness ==
    \E i \in DOMAIN tasks :
        /\ FetchOk(i)
        /\ LET text == JoinedContent(tasks[i].response.page)
               rest == WithoutFollowFrom(text, 1)
           IN  /\ Len(text) - Len(rest) = 2 * Len(FOLLOW)
               /\ Len(tasks[i].ret.content) < Len(rest)
               /\ tasks[i].ret.content # <<>>

\* the text extracted from the page's paragraph elements is empty
NoBodyText(page) ==
    \A k \in 1..Len(Paragraphs(page)) : get_text_strip(Paragraphs(page)[k]) = <<>>

\* C9: the body of a returned Article is never the empty string; when the
\* extracted body text is empty the body is "No Content Found".
C9_Claim ==
    \A i \in DOMAIN tasks :
        FetchOk(i) =>
            /\ tasks[i].ret.content # <<>>
            /\ NoBodyText(tasks[i].response.page) =>
                   tasks[i].ret.content = NO_CONTENT_FOUND

\* C10, the order of the run: no task exists before the landing page is
\* fetched and its links extracted; a link is submitted and fetched at
\* most once; when the function returns, every link has been submitted and
\* fetched exactly once, every task is finished and collected, and every
\* successful task's Article is in the returned list.
C10_Order ==
    /\ tasks # <<>> => pc \notin {"main_231", "main_237", "gmpa_204", "gmpa_206"}
    /\ Len(tasks) <= Len(articles)
    /\ \A i \in DOMAIN tasks :
        tasks[i].starts = (IF tasks[i].st = "pending" THEN 0 ELSE 1)
    /\ (returned.kind = "return" /\ articles # <<>>) =>
        /\ Len(tasks) = Len(articles)
        /\ yielded = DOMAIN tasks
        /\ \A i \in DOMAIN tasks :
            /\ Done(i)
            /\ FetchOk(i) => tasks[i].ret \in Elements(returned.value)

\* C10: the order of the run as above, and get_main_page_articles, given
\* links and a positive number of threads, ends by returning once every
\* fetch has ended.
C10_Claim ==
    /\ C10_Order
    /\ (articles # <<>> /\ threads > 0) => returned.kind # "raise"

=============================================================================
